---- MODULE Spec2Model ----
(***************************************************************************)
(* A state-machine model of PlayerController (src/playerController.py):    *)
(* the agent's pixel position (player.x, player.y), the cached cell        *)
(* position (player_position), the four solver slots, keyboard moves,      *)
(* reset, the four move_to_goal_* operations and the follow_path replay    *)
(* loop.                                                                   *)
(*                                                                         *)
(* Python lists are 0-indexed and accept negative indices; the grid is a   *)
(* TLA+ sequence of sequences, read only through PyIndexable / PyCell.     *)
(* An exception that leaves the controller ends the run: pc = "raised".    *)
(***************************************************************************)
EXTENDS Integers, Sequences, FiniteSets

VARIABLES
    maze,             \* self.maze.current_level: rows of cell codes
    x,                \* self.player.x
    y,                \* self.player.y
    player_position,  \* self.player_position, the cached (row, col)
    dfs_solver,       \* self.dfs_solver
    bfs_solver,       \* self.bfs_solver
    dijkstra_solver,  \* self.dijkstra_solver
    astar_solver,     \* self.astar_solver
    pc,               \* "idle" | "solving" | "follow" | "raised"
    call,             \* the solver invocation in flight (pc = "solving")
    path,             \* follow_path: the path being replayed
    index,            \* follow_path: which cell of path the for loop is at (from 1)
    wellformed,       \* ghost: did follow_path start with a WellFormedPath (not program state)
    err,              \* the exception that left the controller, or "none"
    returned          \* the last direct query of a pure method: its argument and return value

vars == <<maze, x, y, player_position, dfs_solver, bfs_solver, dijkstra_solver,
          astar_solver, pc, call, path, index, wellformed, err, returned>>

----------------------------------------------------------------------------
(* Bounds of the model *)

Rows == 2

Cols == 2

MaxWalls == 1

MaxGoals == 1

MaxPathLen == 2

\* how far beyond the grid's edges is_valid_position is asked about
Margin == 1

----------------------------------------------------------------------------
(* Program constants and values *)

\* config.TILE_SIZE (from config import *): the pixel-to-cell scale factor
TILE_SIZE == 32

OPEN == 0
WALL == 1
GOAL == 3

\* Python's None as returned by find_goal_position / a solver: falsy
None == <<>>

\* Python's None stored in a solver slot
NoSolver == "None"

\* any object that is not None, stored in a solver slot
SolverObject == "solver"

SolverValues == {NoSolver, SolverObject}

Strategies == {"dfs", "bfs", "dijkstra", "astar"}

\* pygame.K_UP, K_DOWN, K_LEFT, K_RIGHT: the keys of the direction mapping
Keys == {"K_UP", "K_DOWN", "K_LEFT", "K_RIGHT"}

NoCall == [strategy |-> "none", args |-> <<>>]

NoQuery == [op |-> "none", arg |-> <<>>, value |-> <<>>]

----------------------------------------------------------------------------
(* The grid, read the way Python reads a list of lists *)

NumRows(m) == Len(m)

NumCols(m) == Len(m[1])

\* m[r][c] raises IndexError unless -len <= index < len on both axes
PyIndexable(m, r, c) ==
    /\ -NumRows(m) <= r /\ r < NumRows(m)
    /\ -NumCols(m) <= c /\ c < NumCols(m)

\* m[r][c] for an indexable (r, c): a negative index counts from the end
PyCell(m, r, c) ==
    m[(IF r < 0 THEN r + NumRows(m) ELSE r) + 1][(IF c < 0 THEN c + NumCols(m) ELSE c) + 1]

Cells(m) == (0 .. NumRows(m) - 1) \X (0 .. NumCols(m) - 1)

CountCode(m, code) == Cardinality({p \in Cells(m) : PyCell(m, p[1], p[2]) = code})

\* the levels: rectangular grids over the three cell codes, spawn cell (1,1) open
Grids ==
    {g \in [1 .. Rows -> [1 .. Cols -> {OPEN, WALL, GOAL}]] :
        /\ CountCode(g, WALL) <= MaxWalls
        /\ CountCode(g, GOAL) <= MaxGoals
        /\ g[2][2] # WALL}

\* the paths a solver may hand back or a caller may replay: cells of the grid
RECURSIVE PathsUpTo(_, _)
PathsUpTo(m, n) ==
    IF n = 0 THEN {<<>>}
    ELSE LET shorter == PathsUpTo(m, n - 1)
         IN  shorter \cup {Append(p, c) : p \in {q \in shorter : Len(q) = n - 1}, c \in Cells(m)}

Paths(m) == PathsUpTo(m, MaxPathLen)

----------------------------------------------------------------------------
(* Pure helpers of the controller *)

\* a validity check that forgets the lower bounds: a negative index reads the
\* grid from its end
is_valid_position_no_lower_bound(m, position) ==
    /\ position[1] < NumRows(m)
    /\ position[2] < NumCols(m)
    /\ PyCell(m, position[1], position[2]) # WALL

\* is_valid_position: in bounds on both axes (short-circuit) and not a wall
is_valid_position(m, position) ==
    /\ 0 <= position[1] /\ position[1] < NumRows(m)
    /\ 0 <= position[2] /\ position[2] < NumCols(m)
    /\ PyCell(m, position[1], position[2]) # WALL

\* the cell check_collision and follow_path read for pixel coordinates (px, py)
PixelCell(px, py) == <<py \div TILE_SIZE, px \div TILE_SIZE>>

\* check_collision raises IndexError when the list lookup is out of range
check_collision_raises(m, px, py) ==
    ~PyIndexable(m, PixelCell(px, py)[1], PixelCell(px, py)[2])

\* check_collision: True when the looked-up cell is not a wall
check_collision(m, px, py) ==
    PyCell(m, PixelCell(px, py)[1], PixelCell(px, py)[2]) # WALL

\* find_goal_position: row-major scan from (i, j), first cell with the goal code
RECURSIVE ScanGoal(_, _, _)
ScanGoal(m, i, j) ==
    IF i >= NumRows(m) THEN None
    ELSE IF j >= NumCols(m) THEN ScanGoal(m, i + 1, 0)
    ELSE IF PyCell(m, i, j) = GOAL THEN <<i, j>>
    ELSE ScanGoal(m, i, j + 1)

\* a goal lookup that scans column by column
RECURSIVE ScanGoalColumnMajor(_, _, _)
ScanGoalColumnMajor(m, i, j) ==
    IF j >= NumCols(m) THEN None
    ELSE IF i >= NumRows(m) THEN ScanGoalColumnMajor(m, 0, j + 1)
    ELSE IF PyCell(m, i, j) = GOAL THEN <<i, j>>
    ELSE ScanGoalColumnMajor(m, i + 1, j)

find_goal_position_column_major(m) == ScanGoalColumnMajor(m, 0, 0)

\* a goal lookup that falls back to the origin when the scan finds nothing
find_goal_position_default(m) ==
    IF ScanGoal(m, 0, 0) = None THEN <<0, 0>> ELSE ScanGoal(m, 0, 0)

find_goal_position(m) == ScanGoal(m, 0, 0)

\* astar_solver.find_goal_position(maze): the solver's own goal lookup
astar_find_goal_position(m) == find_goal_position(m)

\* Python truth value of a tuple or None
Truthy(v) == v # None

\* start_position = (player.y // TILE_SIZE, player.x // TILE_SIZE)
start_position(px, py) == PixelCell(px, py)

\* the arguments each move_to_goal_* hands to its solver's search call
solver_args(strategy, m, start, goal) ==
    CASE strategy = "dfs" -> <<m, start, goal>>
      [] strategy = "bfs" -> <<m, start, goal>>
      [] strategy = "dijkstra" -> <<start, goal>>
      [] strategy = "astar" -> <<"heuristic1">>

Adjacent4(a, b) ==
    \/ a[1] = b[1] /\ (a[2] = b[2] + 1 \/ a[2] = b[2] - 1)
    \/ a[2] = b[2] /\ (a[1] = b[1] + 1 \/ a[1] = b[1] - 1)

\* direction_x / direction_y of follow_path: the sign of target - current
Sign(target, current) == IF target > current THEN 1 ELSE IF target < current THEN -1 ELSE 0

----------------------------------------------------------------------------
(* Initial state: PlayerController(player, maze) with the agent at the spawn *)

Init ==
    /\ maze \in Grids
    /\ x = TILE_SIZE
    /\ y = TILE_SIZE
    /\ player_position = <<1, 1>>
    /\ dfs_solver = SolverObject
    /\ bfs_solver = SolverObject
    /\ dijkstra_solver = NoSolver
    /\ astar_solver = NoSolver
    /\ pc = "idle"
    /\ call = NoCall
    /\ path = <<>>
    /\ index = 0
    /\ wellformed = FALSE
    /\ err = "none"
    /\ returned = NoQuery

\* an exception propagates out of the controller; nothing in it catches
Raise(e) ==
    /\ pc' = "raised"
    /\ err' = e

----------------------------------------------------------------------------
(* move_player, reset_player_position, the setters *)

\* an if/elif chain that tests K_LEFT before K_DOWN
Prospective_left_first(direction) ==
    IF "K_UP" \in direction THEN
        [new_x |-> x, new_y |-> y - TILE_SIZE,
         new_position |-> <<player_position[1] - 1, player_position[2]>>]
    ELSE IF "K_LEFT" \in direction THEN
        [new_x |-> x - TILE_SIZE, new_y |-> y,
         new_position |-> <<player_position[1], player_position[2] - 1>>]
    ELSE IF "K_DOWN" \in direction THEN
        [new_x |-> x, new_y |-> y + TILE_SIZE,
         new_position |-> <<player_position[1] + 1, player_position[2]>>]
    ELSE
        [new_x |-> x + TILE_SIZE, new_y |-> y,
         new_position |-> <<player_position[1], player_position[2] + 1>>]

\* new_x, new_y, new_position for the first pressed key in the if/elif chain
Prospective(direction) ==
    IF "K_UP" \in direction THEN
        [new_x |-> x, new_y |-> y - TILE_SIZE,
         new_position |-> <<player_position[1] - 1, player_position[2]>>]
    ELSE IF "K_DOWN" \in direction THEN
        [new_x |-> x, new_y |-> y + TILE_SIZE,
         new_position |-> <<player_position[1] + 1, player_position[2]>>]
    ELSE IF "K_LEFT" \in direction THEN
        [new_x |-> x - TILE_SIZE, new_y |-> y,
         new_position |-> <<player_position[1], player_position[2] - 1>>]
    ELSE
        [new_x |-> x + TILE_SIZE, new_y |-> y,
         new_position |-> <<player_position[1], player_position[2] + 1>>]

\* an if/elif chain without the final "else: return"
move_player_no_else(direction) ==
    /\ pc = "idle"
    /\ IF direction = {}
       THEN /\ Raise("UnboundLocalError")
            /\ UNCHANGED <<returned, maze, x, y, player_position, dfs_solver, bfs_solver,
                           dijkstra_solver, astar_solver, call, path, index, wellformed>>
       ELSE LET p == Prospective(direction) IN
            /\ player_position' =
                 IF is_valid_position(maze, p.new_position) THEN p.new_position
                 ELSE player_position
            /\ IF check_collision_raises(maze, p.new_x, p.new_y)
               THEN /\ Raise("IndexError")
                    /\ UNCHANGED <<x, y>>
               ELSE /\ IF check_collision(maze, p.new_x, p.new_y)
                       THEN x' = p.new_x /\ y' = p.new_y
                       ELSE UNCHANGED <<x, y>>
                    /\ UNCHANGED <<pc, err>>
            /\ UNCHANGED <<returned, maze, dfs_solver, bfs_solver, dijkstra_solver, astar_solver,
                           call, path, index, wellformed>>

move_player(direction) ==
    /\ pc = "idle"
    /\ IF direction = {} THEN UNCHANGED vars
       ELSE LET p == Prospective(direction) IN
            /\ player_position' =
                 IF is_valid_position(maze, p.new_position) THEN p.new_position
                 ELSE player_position
            /\ IF check_collision_raises(maze, p.new_x, p.new_y)
               THEN /\ Raise("IndexError")
                    /\ UNCHANGED <<x, y>>
               ELSE /\ IF check_collision(maze, p.new_x, p.new_y)
                       THEN x' = p.new_x /\ y' = p.new_y
                       ELSE UNCHANGED <<x, y>>
                    /\ UNCHANGED <<pc, err>>
            /\ UNCHANGED <<returned, maze, dfs_solver, bfs_solver, dijkstra_solver, astar_solver,
                           call, path, index, wellformed>>

\* a reset to the origin instead of the spawn
reset_player_position_to_origin ==
    /\ pc = "idle"
    /\ x' = 0
    /\ y' = 0
    /\ UNCHANGED <<returned, maze, player_position, dfs_solver, bfs_solver, dijkstra_solver,
                   astar_solver, pc, call, path, index, wellformed, err>>

\* a reset that also puts the cached cell position back on the spawn cell
reset_player_position_with_cell ==
    /\ pc = "idle"
    /\ x' = TILE_SIZE
    /\ y' = TILE_SIZE
    /\ player_position' = <<1, 1>>
    /\ UNCHANGED <<returned, maze, dfs_solver, bfs_solver, dijkstra_solver,
                   astar_solver, pc, call, path, index, wellformed, err>>

reset_player_position ==
    /\ pc = "idle"
    /\ x' = TILE_SIZE
    /\ y' = TILE_SIZE
    /\ UNCHANGED <<returned, maze, player_position, dfs_solver, bfs_solver, dijkstra_solver,
                   astar_solver, pc, call, path, index, wellformed, err>>

set_dfs_solver(solver) ==
    /\ pc = "idle"
    /\ dfs_solver' = solver
    /\ UNCHANGED <<returned, maze, x, y, player_position, bfs_solver, dijkstra_solver,
                   astar_solver, pc, call, path, index, wellformed, err>>

set_bfs_solver(solver) ==
    /\ pc = "idle"
    /\ bfs_solver' = solver
    /\ UNCHANGED <<returned, maze, x, y, player_position, dfs_solver, dijkstra_solver,
                   astar_solver, pc, call, path, index, wellformed, err>>

set_dijkstra_solver(solver) ==
    /\ pc = "idle"
    /\ dijkstra_solver' = solver
    /\ UNCHANGED <<returned, maze, x, y, player_position, dfs_solver, bfs_solver,
                   astar_solver, pc, call, path, index, wellformed, err>>

\* an A* setter that stores into the Dijkstra slot
set_astar_solver_wrong_slot(solver) ==
    /\ pc = "idle"
    /\ dijkstra_solver' = solver
    /\ UNCHANGED <<returned, maze, x, y, player_position, dfs_solver, bfs_solver,
                   astar_solver, pc, call, path, index, wellformed, err>>

set_astar_solver(solver) ==
    /\ pc = "idle"
    /\ astar_solver' = solver
    /\ UNCHANGED <<returned, maze, x, y, player_position, dfs_solver, bfs_solver,
                   dijkstra_solver, pc, call, path, index, wellformed, err>>

----------------------------------------------------------------------------
(* follow_path: the replay loop, one evaluation of the while condition per step *)

\* the shape of path that the replay is written for (it is what a solver over a
\* 4-connected grid returns): walkable cells, each 4-adjacent to its predecessor,
\* the first one at or next to the agent's pixel-derived cell
WellFormedPath(m, p, px, py) ==
    /\ \A i \in 1 .. Len(p) : is_valid_position(m, p[i])
    /\ \A i \in 1 .. Len(p) - 1 : Adjacent4(p[i], p[i + 1])
    /\ p # <<>> => (p[1] = PixelCell(px, py) \/ Adjacent4(p[1], PixelCell(px, py)))

\* entering follow_path(p): the for loop is about to take its first cell
EnterFollow(p) ==
    /\ pc' = "follow"
    /\ path' = p
    /\ index' = 1
    /\ wellformed' = WellFormedPath(maze, p, x, y)

\* a target x taken from the row of the cell instead of its column
TargetX_from_row(position) == position[1] * TILE_SIZE

\* target_y, target_x = goal_y * TILE_SIZE, goal_x * TILE_SIZE
TargetX(position) == position[2] * TILE_SIZE

TargetY(position) == position[1] * TILE_SIZE

\* the while condition: player.x != target_x or player.y != target_y
NotAtTarget(position) == x # TargetX(position) \/ y # TargetY(position)

\* a replay step of one pixel instead of one tile
FollowNew_pixel_step(position) ==
    [new_x |-> x + Sign(TargetX(position), x),
     new_y |-> y + Sign(TargetY(position), y)]

\* new_x, new_y = player.x + direction_x * TILE_SIZE, player.y + direction_y * TILE_SIZE
FollowNew(position) ==
    [new_x |-> x + Sign(TargetX(position), x) * TILE_SIZE,
     new_y |-> y + Sign(TargetY(position), y) * TILE_SIZE]

\* a caller replays a path directly
follow_path(p) ==
    /\ pc = "idle"
    /\ EnterFollow(p)
    /\ UNCHANGED <<returned, maze, x, y, player_position, dfs_solver, bfs_solver, dijkstra_solver,
                   astar_solver, call, err>>

\* the for loop is exhausted: follow_path returns
FollowReturn ==
    /\ pc = "follow"
    /\ index > Len(path)
    /\ pc' = "idle"
    /\ path' = <<>>
    /\ index' = 0
    /\ wellformed' = FALSE
    /\ UNCHANGED <<returned, maze, x, y, player_position, dfs_solver, bfs_solver, dijkstra_solver,
                   astar_solver, call, err>>

\* the while condition is false: the for loop takes the next cell
FollowNextCell ==
    /\ pc = "follow"
    /\ index <= Len(path)
    /\ ~NotAtTarget(path[index])
    /\ index' = index + 1
    /\ UNCHANGED <<returned, maze, x, y, player_position, dfs_solver, bfs_solver, dijkstra_solver,
                   astar_solver, pc, call, path, wellformed, err>>

\* one iteration of the while body
FollowStep ==
    /\ pc = "follow"
    /\ index <= Len(path)
    /\ NotAtTarget(path[index])
    /\ LET n == FollowNew(path[index]) IN
       IF check_collision_raises(maze, n.new_x, n.new_y)
       THEN /\ Raise("IndexError")
            /\ UNCHANGED <<x, y>>
       ELSE /\ IF check_collision(maze, n.new_x, n.new_y)
               THEN x' = n.new_x /\ y' = n.new_y
               ELSE UNCHANGED <<x, y>>
            /\ UNCHANGED <<pc, err>>
    /\ UNCHANGED <<returned, maze, player_position, dfs_solver, bfs_solver, dijkstra_solver,
                   astar_solver, call, path, index, wellformed>>

----------------------------------------------------------------------------
(* move_to_goal_*: up to the solver's search call, and the solver's answer *)

Invoke(strategy, goal) ==
    /\ pc' = "solving"
    /\ call' = [strategy |-> strategy,
                args |-> solver_args(strategy, maze, start_position(x, y), goal)]
    /\ UNCHANGED <<returned, maze, x, y, player_position, dfs_solver, bfs_solver, dijkstra_solver,
                   astar_solver, path, index, wellformed, err>>

\* calling a method on None
AttributeError ==
    /\ Raise("AttributeError")
    /\ UNCHANGED <<returned, maze, x, y, player_position, dfs_solver, bfs_solver, dijkstra_solver,
                   astar_solver, call, path, index, wellformed>>

move_to_goal_dfs ==
    /\ pc = "idle"
    /\ LET goal_position == find_goal_position(maze) IN
       IF Truthy(goal_position)
       THEN IF dfs_solver = NoSolver THEN AttributeError ELSE Invoke("dfs", goal_position)
       ELSE UNCHANGED vars

move_to_goal_bfs ==
    /\ pc = "idle"
    /\ LET goal_position == find_goal_position(maze) IN
       IF Truthy(goal_position)
       THEN IF bfs_solver = NoSolver THEN AttributeError ELSE Invoke("bfs", goal_position)
       ELSE UNCHANGED vars

move_to_goal_dijkstra ==
    /\ pc = "idle"
    /\ IF dijkstra_solver # NoSolver
       THEN LET goal_position == find_goal_position(maze) IN
            IF Truthy(goal_position) THEN Invoke("dijkstra", goal_position)
            ELSE UNCHANGED vars
       ELSE UNCHANGED vars

move_to_goal_astar ==
    /\ pc = "idle"
    /\ IF astar_solver = NoSolver THEN UNCHANGED vars
       ELSE LET goal_position == astar_find_goal_position(maze) IN
            IF Truthy(goal_position) THEN Invoke("astar", goal_position)
            ELSE UNCHANGED vars

\* a caller that replays whatever find_shortest_path returned, unchecked
HandsOver_unchecked(strategy, found, p) ==
    IF strategy \in {"dfs", "bfs"} THEN found ELSE TRUE

\* does the caller hand the solver's answer to follow_path
\*   dfs, bfs:        if solver.dfs(...): follow_path(solver.get_path())
\*   dijkstra, astar: path = ...; if path: follow_path(path)
HandsOver(strategy, found, p) ==
    IF strategy \in {"dfs", "bfs"} THEN found ELSE Truthy(p)

\* the solver answers: found is the truth value dfs()/bfs() returns (unused by
\* dijkstra and astar), p the path of get_path() / find_shortest_path(). The
\* empty sequence stands for [] and for None alike (both falsy); a true
\* dfs()/bfs() result comes with a path, possibly empty.
SolverReturn(found, p) ==
    /\ pc = "solving"
    /\ call' = NoCall
    /\ IF HandsOver(call.strategy, found, p)
       THEN EnterFollow(p)
       ELSE pc' = "idle" /\ UNCHANGED <<path, index, wellformed>>
    /\ UNCHANGED <<returned, maze, x, y, player_position, dfs_solver, bfs_solver, dijkstra_solver,
                   astar_solver, err>>

----------------------------------------------------------------------------

Next ==
    \/ \E direction \in SUBSET Keys : move_player(direction)
    \/ reset_player_position
    \/ \E solver \in SolverValues : set_dfs_solver(solver)
    \/ \E solver \in SolverValues : set_bfs_solver(solver)
    \/ \E solver \in SolverValues : set_dijkstra_solver(solver)
    \/ \E solver \in SolverValues : set_astar_solver(solver)
    \/ move_to_goal_dfs
    \/ move_to_goal_bfs
    \/ move_to_goal_dijkstra
    \/ move_to_goal_astar
    \/ \E found \in BOOLEAN, p \in Paths(maze) : SolverReturn(found, p)
    \/ \E p \in Paths(maze) : follow_path(p)
    \/ FollowReturn
    \/ FollowNextCell
    \/ FollowStep

Spec == Init /\ [][Next]_vars

\* the replay loop keeps running once entered: nothing else shares its thread
FairSpec == Spec /\ WF_vars(FollowReturn) /\ WF_vars(FollowNextCell) /\ WF_vars(FollowStep)

----------------------------------------------------------------------------
(* The pure methods called on their own: find_goal_position() and            *)
(* is_valid_position(position) read the grid and return a value; the call    *)
(* and its return value are kept in `returned`.                              *)

\* every rectangular grid of the model's size over the three cell codes
QueryGrids == [1 .. Rows -> [1 .. Cols -> {OPEN, WALL, GOAL}]]

\* the positions asked about: the grid and Margin cells beyond each edge
QueryPositions(m) ==
    (-Margin .. NumRows(m) - 1 + Margin) \X (-Margin .. NumCols(m) - 1 + Margin)

QueryInit ==
    /\ maze \in QueryGrids
    /\ x = TILE_SIZE
    /\ y = TILE_SIZE
    /\ player_position = <<1, 1>>
    /\ dfs_solver = SolverObject
    /\ bfs_solver = SolverObject
    /\ dijkstra_solver = NoSolver
    /\ astar_solver = NoSolver
    /\ pc = "idle"
    /\ call = NoCall
    /\ path = <<>>
    /\ index = 0
    /\ wellformed = FALSE
    /\ err = "none"
    /\ returned = NoQuery

query_find_goal_position ==
    /\ pc = "idle"
    /\ returned' = [op |-> "find_goal_position", arg |-> <<>>,
                    value |-> find_goal_position(maze)]
    /\ UNCHANGED <<maze, x, y, player_position, dfs_solver, bfs_solver, dijkstra_solver,
                   astar_solver, pc, call, path, index, wellformed, err>>

query_is_valid_position(position) ==
    /\ pc = "idle"
    /\ returned' = [op |-> "is_valid_position", arg |-> position,
                    value |-> is_valid_position(maze, position)]
    /\ UNCHANGED <<maze, x, y, player_position, dfs_solver, bfs_solver, dijkstra_solver,
                   astar_solver, pc, call, path, index, wellformed, err>>

QueryNext ==
    \/ query_find_goal_position
    \/ \E position \in QueryPositions(maze) : query_is_valid_position(position)

QuerySpec == QueryInit /\ [][QueryNext]_vars

----------------------------------------------------------------------------
(* Claims *)

\* the cell of the grid a pixel position lies in is walkable: in bounds, not a wall
Walkable(m, cell) ==
    /\ cell[1] \in 0 .. NumRows(m) - 1
    /\ cell[2] \in 0 .. NumCols(m) - 1
    /\ m[cell[1] + 1][cell[2] + 1] # WALL

PositionsUnchanged ==
    /\ x' = x
    /\ y' = y
    /\ player_position' = player_position

\* C1: a directional move_player call commits only when both the cell-space check
\* and the pixel-space check pass: afterwards either the cached cell position and
\* the pixel position have both advanced one cell in the chosen direction, or
\* neither has changed.
C1_MoveCommitsBothOrNeither ==
    [][\A direction \in SUBSET Keys :
         (direction # {} /\ move_player(direction)) =>
            LET p == Prospective(direction) IN
            \/ /\ is_valid_position(maze, p.new_position)
               /\ Walkable(maze, PixelCell(p.new_x, p.new_y))
               /\ x' = p.new_x
               /\ y' = p.new_y
               /\ player_position' = p.new_position
            \/ PositionsUnchanged]_vars

\* C2: follow_path always terminates. The loop is deterministic and nothing else
\* runs while it does, so it terminates exactly when every state inside it has a
\* step that changes the state; a state whose only step leaves everything as it
\* was repeats forever.
C2_FollowPathTerminates ==
    pc = "follow" => ENABLED <<FollowReturn \/ FollowNextCell \/ FollowStep>>_vars

\* C3: every committed step of follow_path moves the agent by exactly one
\* TILE_SIZE along exactly one axis: along x when x is misaligned with the
\* target, otherwise along y; never along both.
C3_FollowStepsSingleAxis ==
    [][(pc = "follow" /\ pc' = "follow" /\ <<x, y>>' # <<x, y>>) =>
         \/ /\ x # TargetX(path[index])
            /\ (x' = x + TILE_SIZE \/ x' = x - TILE_SIZE)
            /\ y' = y
         \/ /\ x = TargetX(path[index])
            /\ x' = x
            /\ (y' = y + TILE_SIZE \/ y' = y - TILE_SIZE)]_vars

\* C4: a move_player call whose prospective position leaves the grid bounds or
\* lands on a wall (in the cell view and in the pixel view alike) is silently
\* rejected: no error is raised and neither the pixel position nor the cached
\* cell position changes.
C4_IllegalMoveSilentlyRejected ==
    [][\A direction \in SUBSET Keys :
         (/\ direction # {}
          /\ move_player(direction)
          /\ ~Walkable(maze, Prospective(direction).new_position)
          /\ ~Walkable(maze, PixelCell(Prospective(direction).new_x,
                                       Prospective(direction).new_y)))
         => (pc' # "raised" /\ err' = "none" /\ PositionsUnchanged)]_vars

\* C5: starting at the spawn on a grid whose spawn cell is open, after any
\* sequence of move_player, reset_player_position and follow_path calls the cell
\* derived from the pixel position is walkable.
C5_PixelCellWalkable ==
    (pc = "idle" /\ maze[2][2] # WALL) => Walkable(maze, PixelCell(x, y))

\* the pixel position of a cell: x = col * TILE_SIZE, y = row * TILE_SIZE
AtCell(px, py, cell) == px = cell[2] * TILE_SIZE /\ py = cell[1] * TILE_SIZE

\* C6: replaying a well-formed path (walkable cells, each 4-adjacent to its
\* predecessor, the first at or next to the agent's pixel-derived cell)
\* terminates without raising, every move lands exactly on the path cell the loop
\* is at, the loop leaves a cell only once the agent stands on it, and the replay
\* ends with the agent on the last cell of the path.
C6_WellFormedReplayReachesEnd ==
    /\ (pc = "follow" /\ wellformed) ~> (pc = "idle")
    /\ [][(pc = "follow" /\ wellformed) =>
            /\ pc' # "raised"
            /\ <<x, y>>' # <<x, y>> => AtCell(x', y', path[index])
            /\ index' # index /\ pc' = "follow" =>
                   AtCell(x, y, path[index]) /\ index' = index + 1
            /\ pc' = "idle" =>
                   /\ index = Len(path) + 1
                   /\ path # <<>> => AtCell(x', y', path[Len(path)])]_vars

\* a well-formed two-cell replay that has walked both cells
C6_Witness ==
    /\ pc = "follow"
    /\ wellformed
    /\ Len(path) = 2
    /\ path[1] # path[2]
    /\ index = 3
    /\ AtCell(x, y, path[2])

SlotOf(strategy) ==
    CASE strategy = "dfs" -> dfs_solver
      [] strategy = "bfs" -> bfs_solver
      [] strategy = "dijkstra" -> dijkstra_solver
      [] strategy = "astar" -> astar_solver

MoveToGoal(strategy) ==
    CASE strategy = "dfs" -> move_to_goal_dfs
      [] strategy = "bfs" -> move_to_goal_bfs
      [] strategy = "dijkstra" -> move_to_goal_dijkstra
      [] strategy = "astar" -> move_to_goal_astar

\* the operation returned normally and moved nothing
ReturnedWithoutMoving ==
    /\ pc' = "idle"
    /\ err' = "none"
    /\ PositionsUnchanged

\* C7: for each of the four strategies, move_to_goal_* with its solver slot unset
\* (None) returns without raising and performs no movement; follow_path is not
\* entered.
C7_UnsetSolverNoMovement ==
    [][\A strategy \in Strategies :
         (SlotOf(strategy) = NoSolver /\ MoveToGoal(strategy)) => ReturnedWithoutMoving]_vars

HasGoal(m) == \E cell \in Cells(m) : m[cell[1] + 1][cell[2] + 1] = GOAL

\* C8: every move_to_goal_* that invokes its solver passes the grid, the start
\* cell derived from the pixel position (y // TILE_SIZE, x // TILE_SIZE) and
\* the located goal cell, for all four strategies.
C8_SolverGetsGridStartGoal ==
    pc = "solving" =>
        /\ Len(call.args) = 3
        /\ call.args[1] = maze
        /\ call.args[2] = <<y \div TILE_SIZE, x \div TILE_SIZE>>
        /\ call.args[3] \in Cells(maze)
        /\ maze[call.args[3][1] + 1][call.args[3][2] + 1] = GOAL

\* the solver reported no path: dfs()/bfs() returned false, or the path that
\* find_shortest_path returned is empty or None
NoPathReported(strategy, found, p) ==
    IF strategy \in {"dfs", "bfs"} THEN ~found ELSE p = <<>>

\* C9: in every move_to_goal_* the path goes to follow_path only if the solver
\* reported a path, and then it is the solver's path that is replayed; when the
\* solver reports no path the operation returns without raising and the pixel
\* position and the cached cell position are unchanged.
C9_NoPathNoMovement ==
    [][\A found \in BOOLEAN, p \in Paths(maze) :
         SolverReturn(found, p) =>
            IF NoPathReported(call.strategy, found, p)
            THEN ReturnedWithoutMoving
            ELSE pc' = "follow" /\ path' = p /\ err' = "none" /\ PositionsUnchanged]_vars

\* a Dijkstra search is in flight for an agent that has left the spawn
C9_Witness ==
    /\ pc = "solving"
    /\ call.strategy = "dijkstra"
    /\ <<x, y>> # <<TILE_SIZE, TILE_SIZE>>

\* C10: on a grid without a goal cell no move_to_goal_* runs a path search or
\* follow_path, and each leaves the pixel position and the cached cell position
\* as they were.
C10_NoGoalNoMovement ==
    /\ [](~HasGoal(maze) => pc # "solving")
    /\ [][\A strategy \in Strategies :
            (~HasGoal(maze) /\ MoveToGoal(strategy)) => ReturnedWithoutMoving]_vars

\* a goal-less grid, every solver slot set, the agent away from the spawn
C10_Witness ==
    /\ ~HasGoal(maze)
    /\ pc = "idle"
    /\ \A strategy \in Strategies : SlotOf(strategy) # NoSolver
    /\ <<x, y>> # <<TILE_SIZE, TILE_SIZE>>

GoalCells(m) == {cell \in Cells(m) : m[cell[1] + 1][cell[2] + 1] = GOAL}

\* (row, col) order: by row, then by column
LexLeq(a, b) == a[1] < b[1] \/ (a[1] = b[1] /\ a[2] <= b[2])

\* C11: find_goal_position returns the lexicographically smallest (row, col) whose
\* cell code is 3, and None exactly when the grid has no such cell; a goal at
\* (0,0) is reported as found.
C11_FindGoalLexSmallest ==
    returned.op = "find_goal_position" =>
        IF GoalCells(maze) = {}
        THEN returned.value = None
        ELSE /\ returned.value \in GoalCells(maze)
             /\ \A cell \in GoalCells(maze) : LexLeq(returned.value, cell)

\* two goals, the one in the later row lying in an earlier column: (0,1) is found
C11_Witness ==
    /\ returned.op = "find_goal_position"
    /\ GoalCells(maze) = {<<0, 1>>, <<1, 0>>}
    /\ returned.value = <<0, 1>>

\* C12: is_valid_position(cell) is true exactly when the cell is inside
\* [0,rows) x [0,cols) and its code is not the wall code, for negative and
\* beyond-the-edge coordinates too; the call changes no state.
C12_IsValidIffWalkable ==
    /\ returned.op = "is_valid_position" =>
           returned.value = Walkable(maze, returned.arg)
    /\ returned.op # "none" =>
           /\ pc = "idle" /\ err = "none"
           /\ <<x, y>> = <<TILE_SIZE, TILE_SIZE>>
           /\ player_position = <<1, 1>>

\* a negative row whose wrapped-around cell is open is reported invalid
C12_Witness ==
    /\ returned.op = "is_valid_position"
    /\ returned.arg = <<-1, 0>>
    /\ maze[NumRows(maze)][1] # WALL
    /\ returned.value = FALSE

\* C13: reset_player_position can be called from any state between calls,
\* sets the pixel position to (TILE_SIZE, TILE_SIZE) and nothing else, and
\* a second reset right after the first changes nothing.
C13_ResetToSpawnIdempotent ==
    /\ [](pc = "idle" => ENABLED reset_player_position)
    /\ [][reset_player_position =>
            /\ <<x', y'>> = <<TILE_SIZE, TILE_SIZE>>
            /\ UNCHANGED <<maze, player_position, dfs_solver, bfs_solver,
                           dijkstra_solver, astar_solver, pc, err>>]_vars
    /\ []((pc = "idle" /\ <<x, y>> = <<TILE_SIZE, TILE_SIZE>>) =>
            ~ENABLED <<reset_player_position>>_vars)

\* the agent stands on the spawn pixel while its cached cell is elsewhere
C13_Witness ==
    /\ pc = "idle"
    /\ <<x, y>> = <<TILE_SIZE, TILE_SIZE>>
    /\ player_position # <<1, 1>>

\* C14: move_player with none of the four direction keys pressed returns
\* normally and leaves pixel position, cached cell, solver slots and grid
\* as they were.
C14_NoKeyNoOp ==
    [][move_player({}) =>
         UNCHANGED <<x, y, player_position, dfs_solver, bfs_solver,
                     dijkstra_solver, astar_solver, maze, pc, err>>]_vars

\* between calls, away from the spawn, pixel cell and cached cell apart
C14_Witness ==
    /\ pc = "idle"
    /\ <<x, y>> # <<TILE_SIZE, TILE_SIZE>>
    /\ player_position # PixelCell(x, y)
    /\ ENABLED move_player({})

\* C15: each set_*_solver stores its argument in the slot it names and
\* leaves the other three slots, the pixel position, the cached cell and
\* the grid as they were.
C15_SetterChangesOnlyItsSlot ==
    [][\A solver \in SolverValues :
         /\ set_dfs_solver(solver) =>
              /\ dfs_solver' = solver
              /\ UNCHANGED <<bfs_solver, dijkstra_solver, astar_solver,
                             x, y, player_position, maze, pc, err>>
         /\ set_bfs_solver(solver) =>
              /\ bfs_solver' = solver
              /\ UNCHANGED <<dfs_solver, dijkstra_solver, astar_solver,
                             x, y, player_position, maze, pc, err>>
         /\ set_dijkstra_solver(solver) =>
              /\ dijkstra_solver' = solver
              /\ UNCHANGED <<dfs_solver, bfs_solver, astar_solver,
                             x, y, player_position, maze, pc, err>>
         /\ set_astar_solver(solver) =>
              /\ astar_solver' = solver
              /\ UNCHANGED <<dfs_solver, bfs_solver, dijkstra_solver,
                             x, y, player_position, maze, pc, err>>]_vars

\* every slot differs from its constructed value, the agent has moved, and
\* the four slots do not all hold the same thing
C15_Witness ==
    /\ pc = "idle"
    /\ dfs_solver = NoSolver /\ bfs_solver = NoSolver
    /\ dijkstra_solver = SolverObject /\ astar_solver = NoSolver
    /\ <<x, y>> # <<TILE_SIZE, TILE_SIZE>>

\* the operations other than move_player
NotMovePlayer ==
    \/ reset_player_position
    \/ \E solver \in SolverValues :
         \/ set_dfs_solver(solver) \/ set_bfs_solver(solver)
         \/ set_dijkstra_solver(solver) \/ set_astar_solver(solver)
    \/ move_to_goal_dfs \/ move_to_goal_bfs
    \/ move_to_goal_dijkstra \/ move_to_goal_astar
    \/ \E found \in BOOLEAN, p \in Paths(maze) : SolverReturn(found, p)
    \/ \E p \in Paths(maze) : follow_path(p)
    \/ FollowReturn \/ FollowNextCell \/ FollowStep

\* C16: player_position is changed only by move_player; reset, follow_path,
\* every move_to_goal_* and every setter leave it as it was, also when they
\* change the pixel position.
C16_OnlyMovePlayerChangesCell ==
    /\ [][NotMovePlayer => player_position' = player_position]_vars
    /\ [][player_position' # player_position =>
            \E direction \in SUBSET Keys : move_player(direction)]_vars

\* a replay has carried the sprite off the spawn; the cached cell still says (1,1)
C16_Witness ==
    /\ pc = "follow"
    /\ index >= 2
    /\ <<x, y>> # <<TILE_SIZE, TILE_SIZE>>
    /\ player_position = <<1, 1>>

\* C17: starting grid-aligned, after any sequence of move_player,
\* reset_player_position and follow_path steps both pixel coordinates are
\* integer multiples of TILE_SIZE.
C17_PixelGridAligned ==
    /\ x % TILE_SIZE = 0
    /\ y % TILE_SIZE = 0

\* aligned off the top of the grid, after a move through the wrapped row
C17_Witness ==
    /\ y = -TILE_SIZE
    /\ x = 0

\* the key the if/elif chain of move_player acts on
HighestPriority(direction) ==
    IF "K_UP" \in direction THEN "K_UP"
    ELSE IF "K_DOWN" \in direction THEN "K_DOWN"
    ELSE IF "K_LEFT" \in direction THEN "K_LEFT"
    ELSE "K_RIGHT"

\* (rows, columns) one step of a key covers
KeyDelta(key) ==
    CASE key = "K_UP" -> <<-1, 0>>
      [] key = "K_DOWN" -> <<1, 0>>
      [] key = "K_LEFT" -> <<0, -1>>
      [] key = "K_RIGHT" -> <<0, 1>>

\* C18: move_player acts on exactly one direction per call, the first
\* pressed of up, down, left, right; the other pressed keys have no effect:
\* the call does what a call with that one key alone does, and moves pixel
\* and cell by that key's step or not at all.
C18_OneDirectionByPriority ==
    [][\A direction \in (SUBSET Keys) \ {{}} :
         move_player(direction) =>
           LET key == HighestPriority(direction)
               d == KeyDelta(key)
           IN /\ move_player({key})
              /\ <<x', y'>> \in {<<x, y>>,
                                 <<x + d[2] * TILE_SIZE, y + d[1] * TILE_SIZE>>}
              /\ player_position' \in
                   {player_position,
                    <<player_position[1] + d[1], player_position[2] + d[2]>>}]_vars

\* away from the spawn, with both the cell below and the cell to the left
\* legal: pressing down and left together could go either way
C18_Witness ==
    /\ pc = "idle"
    /\ <<x, y>> # <<TILE_SIZE, TILE_SIZE>>
    /\ is_valid_position(maze, <<player_position[1] + 1, player_position[2]>>)
    /\ is_valid_position(maze, <<player_position[1], player_position[2] - 1>>)
    /\ ENABLED (\E direction \in {{"K_DOWN", "K_LEFT"}} : move_player(direction))

====
